---- MODULE Spec2Model ----
(***************************************************************************)
(* VeloxBook: the per-symbol OrderBook and the MatchingEngine in front of  *)
(* it, as a state machine.  Order objects live in a heap (`orders`); price *)
(* levels, the id index and callers refer to them by handle, the way the   *)
(* C++ code shares them through std::shared_ptr<Order>.                    *)
(***************************************************************************)
EXTENDS Integers, Sequences, FiniteSets, TLC

\* ---------------------------------------------------------------- bounds
\* number of Order objects constructed during a run (submissions and the
\* re-add of modify_order)
MaxOrders == 3
\* number of API calls made during a run
MaxCalls == 3

\* ------------------------------------------------------------- constants
MAX_ORDER_QUANTITY == 1000000
MAX_ORDER_PRICE == 1000000
\* Price and Quantity are uint64_t; TLC's integers have 32 bits, so the
\* unsigned arithmetic is kept modulo 2^24, far above MAX_ORDER_QUANTITY
Modulus == 16777216

Add(a, b) == (a + b) % Modulus
Sub(a, b) == (a - b + Modulus) % Modulus
Min(a, b) == IF a <= b THEN a ELSE b
SetMin(S) == CHOOSE x \in S : \A y \in S : x <= y
SetMax(S) == CHOOSE x \in S : \A y \in S : x >= y

\* std::map::erase(key) and std::map::operator[]= on a TLA+ function
MapErase(f, k) == [x \in (DOMAIN f) \ {k} |-> f[x]]
MapPut(f, k, v) == (k :> v) @@ f
\* std::deque::erase(position)
SeqErase(s, i) == [j \in 1..(Len(s) - 1) |-> IF j < i THEN s[j] ELSE s[j + 1]]
\* position of an element in a deque, 0 when absent (std::find)
RECURSIVE SeqFind(_, _, _)
SeqFind(s, x, i) ==
    IF i > Len(s) THEN 0 ELSE IF s[i] = x THEN i ELSE SeqFind(s, x, i + 1)

\* ------------------------------------------------------------ input sets
\* the symbols traded, in the key order of std::map<std::string, OrderBook>
SymbolOrder == <<"X">>
Symbols == {SymbolOrder[i] : i \in 1..Len(SymbolOrder)}
Users == {"alice"}
Sides == {"BUY", "SELL"}
Types == {"MARKET", "LIMIT", "STOP", "STOP_LIMIT"}
\* prices and quantities submitted: two ticks, two sizes, and 0, which
\* add_order refuses and modify_order accepts
ValidPrices == {1, 2}
ValidQuantities == {1, 2}
Prices == {0} \cup ValidPrices
Quantities == {0} \cup ValidQuantities
Expiries == {0, 1}
Times == {0, 1}
OrderIds == 1..MaxOrders

Terminal == {"FILLED", "CANCELLED", "REJECTED"}

\* ------------------------------------------------------------------ state
VARIABLES
    orders,              \* heap of Order objects, handle = index
    order_books,         \* MatchingEngine::order_books_ : symbol -> OrderBook
    order_id_to_symbol,  \* MatchingEngine::order_id_to_symbol_
    stats,               \* MatchingEngine::stats_
    trade_history,       \* MatchingEngine::trade_history_
    hung,                \* a call entered a loop it never leaves
    ncalls,              \* API calls made so far
    call,                \* the last API call: arguments, result, what it emitted
    threads,             \* the threads inside modify_order: position and locals
    db                   \* the controller's PostgreSQL tables: orders, actions

vars == <<orders, order_books, order_id_to_symbol, stats, trade_history, hung, ncalls, call,
          threads, db>>

\* struct Order, as built by its constructor
NewOrder(id, symbol, side, type, price, quantity, user_id, stop_price, expiry) ==
    [id |-> id, symbol |-> symbol, side |-> side, type |-> type,
     price |-> price, stop_price |-> stop_price, quantity |-> quantity,
     filled_quantity |-> 0, status |-> "NEW", user_id |-> user_id,
     expiry |-> expiry]

\* OrderBook::OrderBook
NewBook ==
    [buy_orders |-> <<>>, sell_orders |-> <<>>, orders_by_id |-> <<>>,
     total_orders |-> 0, total_trades |-> 0, total_volume |-> 0,
     trade_history |-> <<>>]

\* struct OrderBookLevel, value-initialised by std::map::operator[]
NewLevel == [price |-> 0, orders |-> <<>>, total_quantity |-> 0]

NoCall ==
    [op |-> "none", id |-> 0, ret |-> FALSE, trades |-> <<>>,
     fills |-> <<>>, events |-> <<>>, trans |-> <<>>, args |-> <<>>]

\* the tables before the first request
EmptyDb == [orders |-> <<>>, actions |-> <<>>]

\* the threads that may call modify_order at the same time
Threads == {1, 2}

\* a thread outside modify_order
IdleThread ==
    [pc |-> "idle", order_id |-> 0, new_price |-> 0, new_quantity |-> 0, symbol |-> "",
     order |-> 0, cancelling |-> 0, new_order |-> 0, trades |-> <<>>, ret |-> FALSE]

\* the machine as one record, threaded through the operations; `ret` and
\* `local` hold a callee's return value and match_orders' local vector
World ==
    [orders |-> orders, order_books |-> order_books,
     order_id_to_symbol |-> order_id_to_symbol, stats |-> stats,
     trade_history |-> trade_history, hung |-> FALSE,
     ret |-> FALSE, local |-> <<>>, call |-> NoCall]

\* quantity - filled_quantity in unsigned arithmetic
Remaining(o) == Sub(o.quantity, o.filled_quantity)

\* own and opposing side collections of a book
SideField(side) == IF side = "BUY" THEN "buy_orders" ELSE "sell_orders"
OppField(side) == IF side = "BUY" THEN "sell_orders" ELSE "buy_orders"

\* (mutant) the far end of the sorted maps
BestKey_worst(book, field) ==
    IF field = "sell_orders" THEN SetMax(DOMAIN book[field])
    ELSE SetMin(DOMAIN book[field])

\* begin() of the sorted maps: lowest ask, highest bid
BestKey(book, field) ==
    IF field = "sell_orders" THEN SetMin(DOMAIN book[field])
    ELSE SetMax(DOMAIN book[field])

\* an assignment to order->status; every one is logged in call.trans
SetStatus(w, h, s) ==
    [w EXCEPT !.orders[h].status = s,
              !.call.trans = Append(@, [order |-> h, from |-> w.orders[h].status, to |-> s])]

\* the engine's order-update lambda: forwards a snapshot to on_order_update
order_update_callback(w, h) ==
    [w EXCEPT !.call.events = Append(@, [kind |-> "order_update", order |-> w.orders[h]])]

\* the trade lambda's own bookkeeping: statistics and engine trade log
record_trade(w, t) ==
    [w EXCEPT !.stats.total_trades = @ + 1,
              !.stats.total_volume = Add(@, t.quantity),
              !.trade_history = Append(@, t)]

\* on_trade(t): the subscriber is handed the trade; what it would read of
\* the engine's statistics and trade log at that moment is noted with it
on_trade(w, t) ==
    [w EXCEPT !.call.events =
        Append(@, [kind |-> "trade", trade |-> t, stats |-> w.stats,
                   trade_history |-> w.trade_history])]

\* (mutant) the subscriber is called before the bookkeeping
trade_callback_notifyFirst(w, t) == record_trade(on_trade(w, t), t)

\* the engine's trade lambda: statistics, engine trade log, then on_trade
trade_callback(w, t) == on_trade(record_trade(w, t), t)

\* ------------------------------------------------- OrderBook: matching
\* what a fill saw just before it happened (for the priority properties):
\* the orders of the maker's level and the opposing prices that still
\* had quantity to give
OpenInLevel(w, level) ==
    {level.orders[j] : j \in {k \in 1..Len(level.orders) :
                                  Remaining(w.orders[level.orders[k]]) # 0}}
OpenPrices(w, levels) ==
    {p \in DOMAIN levels : OpenInLevel(w, levels[p]) # {}}

\* (mutant) the trade priced at the taker's limit
MakeTrade_takerPrice(taker, maker, price, qty, symbol) ==
    [buy_order_id |-> IF taker.side = "BUY" THEN taker.id ELSE maker.id,
     sell_order_id |-> IF taker.side = "BUY" THEN maker.id ELSE taker.id,
     symbol |-> symbol, price |-> taker.price, quantity |-> qty]

\* the Trade built in match_orders: the taker is the buyer when it buys
MakeTrade(taker, maker, price, qty, symbol) ==
    [buy_order_id |-> IF taker.side = "BUY" THEN taker.id ELSE maker.id,
     sell_order_id |-> IF taker.side = "BUY" THEN maker.id ELSE taker.id,
     symbol |-> symbol, price |-> price, quantity |-> qty]

\* what apply_fill records of a trade in call.fills
FillRecord(w, sym, h, c, price, trade) ==
    [trade |-> trade, taker |-> h, maker |-> c,
     levelOpen |-> OpenInLevel(w, w.order_books[sym][OppField(w.orders[h].side)][price]),
     oppOpen |-> OpenPrices(w, w.order_books[sym][OppField(w.orders[h].side)])]

\* (mutant) the maker's filled_quantity is not advanced
apply_fill_takerOnly(w, sym, h, c, price, trade) ==
    trade_callback(
        [w EXCEPT
           !.local = Append(@, trade),
           !.orders[h].filled_quantity = Add(@, trade.quantity),
           !.order_books[sym][OppField(w.orders[h].side)][price].total_quantity =
               Sub(@, trade.quantity),
           !.order_books[sym].total_trades = @ + 1,
           !.order_books[sym].total_volume = Add(@, trade.quantity),
           !.call.fills = Append(@, FillRecord(w, sym, h, c, price, trade))],
        trade)

\* one trade between taker h and maker c: the Trade is pushed, both
\* filled quantities, the level total and the book counters advance, and
\* the trade callback runs
apply_fill(w, sym, h, c, price, trade) ==
    trade_callback(
        [w EXCEPT
           !.local = Append(@, trade),
           !.orders[h].filled_quantity = Add(@, trade.quantity),
           !.orders[c].filled_quantity = Add(@, trade.quantity),
           !.order_books[sym][OppField(w.orders[h].side)][price].total_quantity =
               Sub(@, trade.quantity),
           !.order_books[sym].total_trades = @ + 1,
           !.order_books[sym].total_volume = Add(@, trade.quantity),
           !.call.fills = Append(@, FillRecord(w, sym, h, c, price, trade))],
        trade)

\* the maker after its fill: Filled and erased from the deque, or Partial;
\* then its order-update callback
settle_maker(w, sym, field, price, i, c) ==
    order_update_callback(
        IF w.orders[c].filled_quantity = w.orders[c].quantity
        THEN [SetStatus(w, c, "FILLED") EXCEPT
                !.order_books[sym][field][price].orders = SeqErase(@, i)]
        ELSE SetStatus(w, c, "PARTIAL"),
        c)

RECURSIVE match_level(_, _, _, _, _)

\* after a trade at deque position i: stop when the taker is filled, else
\* go on at the position the iterator now has
match_level_next(w, sym, h, price, i, len) ==
    IF w.orders[h].filled_quantity = w.orders[h].quantity THEN w
    ELSE match_level(w, sym, h, price,
             IF Len(w.order_books[sym][OppField(w.orders[h].side)][price].orders) < len
             THEN i ELSE i + 1)

\* the trade of the taker with the maker c at deque position i
match_level_trade(w, sym, h, price, i, c, trade_qty) ==
    match_level_next(
        settle_maker(
            apply_fill(w, sym, h, c, price,
                       MakeTrade(w.orders[h], w.orders[c], price, trade_qty, sym)),
            sym, OppField(w.orders[h].side), price, i, c),
        sym, h, price, i,
        Len(w.order_books[sym][OppField(w.orders[h].side)][price].orders))

\* the body of the for loop at deque position i
match_level_at(w, sym, h, price, i, c) ==
    IF Min(Remaining(w.orders[h]), Remaining(w.orders[c])) = 0
    THEN match_level(w, sym, h, price, i + 1)
    ELSE match_level_trade(w, sym, h, price, i, c,
                           Min(Remaining(w.orders[h]), Remaining(w.orders[c])))

\* the for loop over level.orders, from deque position i on
match_level(w, sym, h, price, i) ==
    IF i > Len(w.order_books[sym][OppField(w.orders[h].side)][price].orders) THEN w
    ELSE match_level_at(w, sym, h, price, i,
                        w.order_books[sym][OppField(w.orders[h].side)][price].orders[i])

\* (mutant) an equal price does not cross
Crosses_strict(o, price) ==
    IF o.type = "MARKET" THEN TRUE
    ELSE IF o.side = "BUY" THEN price < o.price ELSE price > o.price

\* does the best opposing price cross the taker's limit
Crosses(o, price) ==
    IF o.type = "MARKET" THEN TRUE
    ELSE IF o.side = "BUY" THEN price <= o.price ELSE price >= o.price

RECURSIVE match_loop(_, _, _)

\* the end of one pass of the while loop: w0 before the level was walked,
\* w after.  An emptied level is erased; a pass that traded nothing and
\* left the level in place repeats unchanged for ever
match_loop_next(w0, w, sym, h, field, price) ==
    IF w.order_books[sym][field][price].orders = <<>>
    THEN match_loop([w EXCEPT !.order_books[sym][field] = MapErase(@, price)], sym, h)
    ELSE IF Len(w.local) = Len(w0.local) THEN [w0 EXCEPT !.hung = TRUE]
    ELSE match_loop(w, sym, h)

\* one pass of the while loop at the best opposing price
match_loop_at(w, sym, h, price) ==
    IF ~Crosses(w.orders[h], price) THEN w
    ELSE match_loop_next(w, match_level(w, sym, h, price, 1), sym, h,
                         OppField(w.orders[h].side), price)

\* the while loop of match_orders
match_loop(w, sym, h) ==
    IF ~(w.orders[h].filled_quantity < w.orders[h].quantity
         /\ DOMAIN w.order_books[sym][OppField(w.orders[h].side)] # {})
    THEN w
    ELSE match_loop_at(w, sym, h, BestKey(w.order_books[sym], OppField(w.orders[h].side)))

\* return trades: the local vector is left in `ret`
return_local(w) == [w EXCEPT !.ret = w.local]

\* OrderBook::match_orders
match_orders(w, sym, h) ==
    return_local(match_loop([w EXCEPT !.local = <<>>], sym, h))

\* ------------------------------------------- OrderBook: levels and types
get_best_bid(book) ==
    IF DOMAIN book.buy_orders = {} THEN 0 ELSE SetMax(DOMAIN book.buy_orders)
get_best_ask(book) ==
    IF DOMAIN book.sell_orders = {} THEN 0 ELSE SetMin(DOMAIN book.sell_orders)

\* (mutant) push_front instead of push_back
add_order_to_level_front(w, sym, h) ==
    LET o == w.orders[h]
        field == SideField(o.side)
        levels == w.order_books[sym][field]
        level0 == IF o.price \in DOMAIN levels THEN levels[o.price] ELSE NewLevel
        level == [price |-> IF level0.price = 0 THEN o.price ELSE level0.price,
                  orders |-> <<h>> \o level0.orders,
                  total_quantity |-> Add(level0.total_quantity, Remaining(o))]
    IN  [w EXCEPT !.order_books[sym][field] = MapPut(@, o.price, level)]

add_order_to_level(w, sym, h) ==
    LET o == w.orders[h]
        field == SideField(o.side)
        levels == w.order_books[sym][field]
        level0 == IF o.price \in DOMAIN levels THEN levels[o.price] ELSE NewLevel
        level == [price |-> IF level0.price = 0 THEN o.price ELSE level0.price,
                  orders |-> Append(level0.orders, h),
                  total_quantity |-> Add(level0.total_quantity, Remaining(o))]
    IN  [w EXCEPT !.order_books[sym][field] = MapPut(@, o.price, level)]

\* (mutant) the order found stays in the deque
level_without_keepsOrder(w, level, pos) ==
    IF pos # 0
    THEN [level EXCEPT !.total_quantity = Sub(@, Remaining(w.orders[level.orders[pos]]))]
    ELSE level

\* the level after std::find gave deque position pos (0: not found)
level_without(w, level, pos) ==
    IF pos # 0
    THEN [level EXCEPT
            !.total_quantity = Sub(@, Remaining(w.orders[level.orders[pos]])),
            !.orders = SeqErase(@, pos)]
    ELSE level

\* the level is written back, or erased from the map when it is empty
put_or_erase_level(w, sym, field, price, level) ==
    IF level.orders = <<>>
    THEN [w EXCEPT !.order_books[sym][field] = MapErase(@, price)]
    ELSE [w EXCEPT !.order_books[sym][field][price] = level]

remove_order_from_level(w, sym, h) ==
    IF w.orders[h].price \notin DOMAIN w.order_books[sym][SideField(w.orders[h].side)]
    THEN w
    ELSE put_or_erase_level(w, sym, SideField(w.orders[h].side), w.orders[h].price,
             level_without(w,
                 w.order_books[sym][SideField(w.orders[h].side)][w.orders[h].price],
                 SeqFind(w.order_books[sym][SideField(w.orders[h].side)][w.orders[h].price].orders,
                         h, 1)))

\* process_market_order once match_orders has returned
reject_unfilled(w, h) ==
    IF w.hung THEN w
    ELSE IF w.orders[h].filled_quantity < w.orders[h].quantity
         THEN SetStatus(w, h, "REJECTED")
         ELSE w

process_market_order(w, sym, h) == reject_unfilled(match_orders(w, sym, h), h)

process_limit_order(w, sym, h) == add_order_to_level(w, sym, h)

\* the LIMIT case once match_orders has returned
rest_unfilled(w, sym, h) ==
    IF w.hung THEN w
    ELSE IF w.orders[h].quantity > w.orders[h].filled_quantity
         THEN process_limit_order(w, sym, h)
         ELSE w

\* case OrderType::LIMIT of add_order, also the triggered stop-limit
match_then_rest(w, sym, h) == rest_unfilled(match_orders(w, sym, h), sym, h)

\* the reference price and trigger test shared by the two stop handlers
StopReference(w, sym, h) ==
    IF w.orders[h].side = "BUY" THEN get_best_ask(w.order_books[sym])
    ELSE get_best_bid(w.order_books[sym])
StopTriggered(o, market_price) ==
    IF o.side = "BUY" THEN market_price >= o.stop_price
    ELSE market_price <= o.stop_price

\* (mutant) a stop order that is not triggered is put into a level
process_stop_order_rests(w, sym, h) ==
    IF StopReference(w, sym, h) = 0 THEN SetStatus(w, h, "REJECTED")
    ELSE IF StopTriggered(w.orders[h], StopReference(w, sym, h))
         THEN process_market_order([w EXCEPT !.orders[h].type = "MARKET"], sym, h)
         ELSE add_order_to_level(w, sym, h)

process_stop_order(w, sym, h) ==
    IF StopReference(w, sym, h) = 0 THEN SetStatus(w, h, "REJECTED")
    ELSE IF StopTriggered(w.orders[h], StopReference(w, sym, h))
         THEN process_market_order([w EXCEPT !.orders[h].type = "MARKET"], sym, h)
         ELSE w

process_stop_limit_order(w, sym, h) ==
    IF StopReference(w, sym, h) = 0 THEN SetStatus(w, h, "REJECTED")
    ELSE IF StopTriggered(w.orders[h], StopReference(w, sym, h))
         THEN match_then_rest([w EXCEPT !.orders[h].type = "LIMIT"], sym, h)
         ELSE w

\* ------------------------------------------------ OrderBook: operations
ValidOrder(o) ==
    ~(o.quantity = 0 \/ o.quantity > MAX_ORDER_QUANTITY
      \/ (o.type = "LIMIT" /\ (o.price = 0 \/ o.price > MAX_ORDER_PRICE)))

\* the status assignment after the switch of add_order
final_status(w, h) ==
    IF w.orders[h].filled_quantity = w.orders[h].quantity THEN SetStatus(w, h, "FILLED")
    ELSE IF w.orders[h].filled_quantity > 0 THEN SetStatus(w, h, "PARTIAL")
    ELSE w

\* trade_history_.insert(...); return trades
store_trades(w, sym, trades) ==
    [w EXCEPT !.order_books[sym].trade_history = @ \o trades, !.ret = trades]

\* the tail of add_order after the switch: status, callback, trade history;
\* only the LIMIT case of the switch assigned the local `trades`
add_order_finish(w, sym, h, was_limit) ==
    IF w.hung THEN w
    ELSE store_trades(order_update_callback(final_status(w, h), h), sym,
                      IF was_limit THEN w.ret ELSE <<>>)

\* the switch of add_order
add_order_switch(w, sym, h) ==
    CASE w.orders[h].type = "MARKET" -> process_market_order(w, sym, h)
      [] w.orders[h].type = "LIMIT" -> match_then_rest(w, sym, h)
      [] w.orders[h].type = "STOP" -> process_stop_order(w, sym, h)
      [] w.orders[h].type = "STOP_LIMIT" -> process_stop_limit_order(w, sym, h)

\* OrderBook::add_order on the book of sym; the order object is orders[h]
add_order(w, sym, h) ==
    IF ~ValidOrder(w.orders[h])
    THEN [SetStatus(w, h, "REJECTED") EXCEPT !.ret = <<>>]
    ELSE add_order_finish(
             add_order_switch(
                 [w EXCEPT !.order_books[sym].orders_by_id = MapPut(@, w.orders[h].id, h),
                           !.order_books[sym].total_orders = @ + 1],
                 sym, h),
             sym, h, w.orders[h].type = "LIMIT")

\* cancel_order once the order object h is found and may be cancelled
cancel_found(w, sym, order_id, h) ==
    [order_update_callback(
        [(IF w.orders[h].type = "LIMIT"
          THEN remove_order_from_level(SetStatus(w, h, "CANCELLED"), sym, h)
          ELSE SetStatus(w, h, "CANCELLED"))
         EXCEPT !.order_books[sym].orders_by_id = MapErase(@, order_id)],
        h)
     EXCEPT !.ret = TRUE]

\* OrderBook::cancel_order
cancel_order(w, sym, order_id) ==
    IF order_id \notin DOMAIN w.order_books[sym].orders_by_id THEN [w EXCEPT !.ret = FALSE]
    ELSE IF w.orders[w.order_books[sym].orders_by_id[order_id]].status
                \in {"FILLED", "CANCELLED"}
         THEN [w EXCEPT !.ret = FALSE]
         ELSE cancel_found(w, sym, order_id, w.order_books[sym].orders_by_id[order_id])

\* return true, unless add_order never returned
return_true(w) == IF w.hung THEN w ELSE [w EXCEPT !.ret = TRUE]

\* std::make_shared<Order>(...) followed by add_order(new_order)
add_new_order(w, sym, new_order) ==
    add_order([w EXCEPT !.orders = Append(@, new_order)], sym, Len(w.orders) + 1)

\* (mutant) a larger quantity at the same price is also set in place
modify_found_keepsPlace(w, sym, order_id, h, o, new_price, new_quantity) ==
    IF new_price = o.price
    THEN [order_update_callback([w EXCEPT !.orders[h].quantity = new_quantity], h)
            EXCEPT !.ret = TRUE]
    ELSE return_true(
             add_new_order(cancel_order(w, sym, order_id), sym,
                           NewOrder(o.id, o.symbol, o.side, o.type,
                                    new_price, new_quantity, o.user_id, 0, 0)))

\* modify_order once the order o is found and open
modify_found(w, sym, order_id, h, o, new_price, new_quantity) ==
    IF new_quantity <= o.quantity /\ new_price = o.price
    THEN [order_update_callback([w EXCEPT !.orders[h].quantity = new_quantity], h)
            EXCEPT !.ret = TRUE]
    ELSE return_true(
             add_new_order(cancel_order(w, sym, order_id), sym,
                           NewOrder(o.id, o.symbol, o.side, o.type,
                                    new_price, new_quantity, o.user_id, 0, 0)))

\* the early returns of modify_order for the order object h
modify_checked(w, sym, order_id, h, new_price, new_quantity) ==
    IF w.orders[h].status \in {"FILLED", "CANCELLED"} THEN [w EXCEPT !.ret = FALSE]
    ELSE IF w.orders[h].filled_quantity >= w.orders[h].quantity THEN [w EXCEPT !.ret = FALSE]
    ELSE modify_found(w, sym, order_id, h, w.orders[h], new_price, new_quantity)

\* OrderBook::modify_order
modify_order(w, sym, order_id, new_price, new_quantity) ==
    IF order_id \notin DOMAIN w.order_books[sym].orders_by_id THEN [w EXCEPT !.ret = FALSE]
    ELSE modify_checked(w, sym, order_id, w.order_books[sym].orders_by_id[order_id],
                        new_price, new_quantity)

\* the ids collected by the sweep, in the map's key order
RECURSIVE cancel_each(_, _, _)
cancel_each(w, sym, ids) ==
    IF ids = {} THEN w
    ELSE cancel_each(cancel_order(w, sym, SetMin(ids)), sym, ids \ {SetMin(ids)})

\* is the order past its expiry and still New
Expired(o, now) == o.expiry > 0 /\ o.expiry <= now /\ o.status = "NEW"

\* OrderBook::cancel_expired_orders
book_cancel_expired_orders(w, sym, now) ==
    cancel_each(w, sym,
        {id \in DOMAIN w.order_books[sym].orders_by_id :
            Expired(w.orders[w.order_books[sym].orders_by_id[id]], now)})

\* OrderBook::clear (the trade history is not touched)
book_clear(book) ==
    [book EXCEPT !.buy_orders = <<>>, !.sell_orders = <<>>, !.orders_by_id = <<>>,
                 !.total_orders = 0, !.total_trades = 0, !.total_volume = 0]

\* ------------------------------------------------------- MatchingEngine
\* order_books_.try_emplace(symbol, symbol)
try_emplace(w, sym) ==
    IF sym \in DOMAIN w.order_books THEN w
    ELSE [w EXCEPT !.order_books = MapPut(@, sym, NewBook)]

\* add_order once the book has returned: id index and order counter
engine_add_order_record(w, id, symbol) ==
    IF w.hung THEN w
    ELSE [w EXCEPT !.order_id_to_symbol = MapPut(@, id, symbol),
                   !.stats.total_orders = @ + 1]

\* (mutant) the engine keeps a single book
engine_add_order_oneBook(w, h) ==
    engine_add_order_record(
        add_order(try_emplace(w, "X"), "X", h),
        w.orders[h].id, w.orders[h].symbol)

\* MatchingEngine::add_order
engine_add_order(w, h) ==
    engine_add_order_record(
        add_order(try_emplace(w, w.orders[h].symbol), w.orders[h].symbol, h),
        w.orders[h].id, w.orders[h].symbol)

\* cancel_order once the book has answered: on success the id leaves the
\* index and the order counter goes down, not below zero
engine_cancel_order_record(w, order_id) ==
    IF w.ret
    THEN [w EXCEPT !.order_id_to_symbol = MapErase(@, order_id),
                   !.stats.total_orders = IF @ > 0 THEN @ - 1 ELSE @]
    ELSE w

\* (mutant) an id the engine does not know is answered with true
engine_cancel_order_unknownIsTrue(w, order_id) ==
    IF order_id \notin DOMAIN w.order_id_to_symbol THEN [w EXCEPT !.ret = TRUE]
    ELSE engine_cancel_order_record(
             cancel_order(try_emplace(w, w.order_id_to_symbol[order_id]),
                          w.order_id_to_symbol[order_id], order_id),
             order_id)

\* MatchingEngine::cancel_order
engine_cancel_order(w, order_id) ==
    IF order_id \notin DOMAIN w.order_id_to_symbol THEN [w EXCEPT !.ret = FALSE]
    ELSE engine_cancel_order_record(
             cancel_order(try_emplace(w, w.order_id_to_symbol[order_id]),
                          w.order_id_to_symbol[order_id], order_id),
             order_id)

\* MatchingEngine::modify_order
engine_modify_order(w, order_id, new_price, new_quantity) ==
    IF order_id \notin DOMAIN w.order_id_to_symbol THEN [w EXCEPT !.ret = FALSE]
    ELSE modify_order(try_emplace(w, w.order_id_to_symbol[order_id]),
                      w.order_id_to_symbol[order_id], order_id, new_price, new_quantity)

\* OrderBook::get_order: the order object's handle, 0 for nullptr
get_order(w, sym, order_id) ==
    IF order_id \in DOMAIN w.order_books[sym].orders_by_id
    THEN w.order_books[sym].orders_by_id[order_id]
    ELSE 0

\* MatchingEngine::get_order
engine_get_order(w, order_id) ==
    IF order_id \notin DOMAIN w.order_id_to_symbol THEN 0
    ELSE get_order(w, w.order_id_to_symbol[order_id], order_id)

\* MatchingEngine::cancel_expired_orders: every book, in map order
RECURSIVE sweep_books(_, _, _)
sweep_books(w, i, now) ==
    IF i > Len(SymbolOrder) THEN w
    ELSE IF SymbolOrder[i] \notin DOMAIN w.order_books THEN sweep_books(w, i + 1, now)
    ELSE sweep_books(book_cancel_expired_orders(w, SymbolOrder[i], now), i + 1, now)
engine_cancel_expired_orders(w, now) == sweep_books(w, 1, now)

\* MatchingEngine::clear: statistics and trade history are left as they are
engine_clear(w) ==
    [w EXCEPT !.order_books = <<>>, !.order_id_to_symbol = <<>>]

\* does the trade's buy order, else its sell order, resolve through the
\* id index to an order of the user
trade_of_user(w, sym, t, user_id) ==
    IF t.buy_order_id \in DOMAIN w.order_books[sym].orders_by_id
       /\ w.orders[w.order_books[sym].orders_by_id[t.buy_order_id]].user_id = user_id
    THEN TRUE
    ELSE /\ t.sell_order_id \in DOMAIN w.order_books[sym].orders_by_id
         /\ w.orders[w.order_books[sym].orders_by_id[t.sell_order_id]].user_id = user_id

\* OrderBook::get_user_trades: the scan of trade_history_ from position i
RECURSIVE book_get_user_trades(_, _, _, _)
book_get_user_trades(w, sym, user_id, i) ==
    IF i > Len(w.order_books[sym].trade_history) THEN <<>>
    ELSE (IF trade_of_user(w, sym, w.order_books[sym].trade_history[i], user_id)
          THEN <<w.order_books[sym].trade_history[i]>> ELSE <<>>)
            \o book_get_user_trades(w, sym, user_id, i + 1)

\* MatchingEngine::get_user_trades: every book, in map order
RECURSIVE engine_get_user_trades(_, _, _)
engine_get_user_trades(w, user_id, i) ==
    IF i > Len(SymbolOrder) THEN <<>>
    ELSE (IF SymbolOrder[i] \in DOMAIN w.order_books
          THEN book_get_user_trades(w, SymbolOrder[i], user_id, 1) ELSE <<>>)
            \o engine_get_user_trades(w, user_id, i + 1)

\* MatchingEngine::get_order_count: the counter, not a recount
engine_get_order_count(w) == w.stats.total_orders

\* get_bid_levels / get_ask_levels call the books with this depth
LevelDepth == 1000

\* OrderBook::get_bid_levels / get_ask_levels: the first `depth` levels of a
\* side in the map's order (highest bid first, lowest ask first)
RECURSIVE get_levels(_, _, _)
get_levels(levels, field, depth) ==
    IF DOMAIN levels = {} \/ depth = 0 THEN <<>>
    ELSE LET best == IF field = "sell_orders" THEN SetMin(DOMAIN levels)
                     ELSE SetMax(DOMAIN levels)
         IN  <<levels[best]>> \o get_levels(MapErase(levels, best), field, depth - 1)

\* for (level : levels) for (order : level.orders) push_back(order)
RECURSIVE orders_of_levels(_)
orders_of_levels(levels) ==
    IF levels = <<>> THEN <<>>
    ELSE Head(levels).orders \o orders_of_levels(Tail(levels))

\* the orders of a book's levels: bids, then asks
book_level_orders(book) ==
    orders_of_levels(get_levels(book.buy_orders, "buy_orders", LevelDepth))
        \o orders_of_levels(get_levels(book.sell_orders, "sell_orders", LevelDepth))

\* MatchingEngine::get_all_orders: every book, in map order
RECURSIVE engine_get_all_orders(_, _)
engine_get_all_orders(w, i) ==
    IF i > Len(SymbolOrder) THEN <<>>
    ELSE (IF SymbolOrder[i] \in DOMAIN w.order_books
          THEN book_level_orders(w.order_books[SymbolOrder[i]]) ELSE <<>>)
            \o engine_get_all_orders(w, i + 1)

\* if (order->user_id == user_id) push_back(order)
RECURSIVE orders_of_user(_, _, _)
orders_of_user(w, hs, user_id) ==
    IF hs = <<>> THEN <<>>
    ELSE (IF w.orders[Head(hs)].user_id = user_id THEN <<Head(hs)>> ELSE <<>>)
            \o orders_of_user(w, Tail(hs), user_id)

\* MatchingEngine::get_user_orders: every book, in map order
RECURSIVE engine_get_user_orders(_, _, _)
engine_get_user_orders(w, user_id, i) ==
    IF i > Len(SymbolOrder) THEN <<>>
    ELSE (IF SymbolOrder[i] \in DOMAIN w.order_books
          THEN orders_of_user(w, book_level_orders(w.order_books[SymbolOrder[i]]), user_id)
          ELSE <<>>)
            \o engine_get_user_orders(w, user_id, i + 1)

\* ------------------------------------------------- OrderBookController
\* the times in force a client may name
Tifs == {"GTC", "IOC", "FOK"}

\* the engine's answer to cancel_order is dropped: `trades` stays the result
keep_trades(w, trades) == [w EXCEPT !.ret = trades]

\* (mutant) only FOK cancels the unfilled remainder
place_order_tif_onlyFOK(w, h, tif) ==
    IF w.hung THEN w
    ELSE IF tif = "FOK" /\ w.orders[h].filled_quantity < w.orders[h].quantity
         THEN keep_trades(engine_cancel_order(w, w.orders[h].id), w.ret)
         ELSE w

\* placeOrder once engine->add_order has returned: an IOC or FOK order
\* that is not filled is cancelled
place_order_tif(w, h, tif) ==
    IF w.hung THEN w
    ELSE IF tif \in {"IOC", "FOK"} /\ w.orders[h].filled_quantity < w.orders[h].quantity
         THEN keep_trades(engine_cancel_order(w, w.orders[h].id), w.ret)
         ELSE w

\* OrderBookController::placeOrder, from the constructed order on
place_order(w, h, tif) == place_order_tif(engine_add_order(w, h), h, tif)

\* ---------------------------------------------------------------- actions
Init ==
    /\ orders = <<>>
    /\ order_books = <<>>
    /\ order_id_to_symbol = <<>>
    /\ stats = [total_orders |-> 0, total_trades |-> 0, total_volume |-> 0]
    /\ trade_history = <<>>
    /\ hung = FALSE
    /\ ncalls = 0
    /\ call = NoCall
    /\ threads = [t \in Threads |-> IdleThread]
    /\ db = EmptyDb

Commit(w) ==
    /\ orders' = w.orders
    /\ order_books' = w.order_books
    /\ order_id_to_symbol' = w.order_id_to_symbol
    /\ stats' = w.stats
    /\ trade_history' = w.trade_history
    /\ hung' = w.hung
    /\ ncalls' = ncalls + 1
    /\ call' = w.call
    /\ threads' = threads
    /\ db' = db

\* the caller is single-threaded: no call starts while one is running
Ready == ~hung /\ ncalls < MaxCalls

Begin(op, id) == [World EXCEPT !.call.op = op, !.call.id = id]
\* the same, with the call's further arguments noted
BeginArgs(op, id, args) == [Begin(op, id) EXCEPT !.call.args = args]

\* the call returns to the client: its result is noted and the state is
\* what the call left
ReturnTrades(w) == Commit([w EXCEPT !.call.trades = w.ret])
ReturnBool(w) == Commit([w EXCEPT !.call.ret = w.ret])

\* a client of the given users submits an order with a fresh id, drawn from
\* the given sets
SubmitBy(users, types, prices, stop_prices, quantities, expiries) ==
    /\ Ready
    /\ Len(orders) < MaxOrders
    /\ \E symbol \in Symbols, side \in Sides, type \in types, user_id \in users,
          quantity \in quantities, expiry \in expiries,
          price \in prices, stop_price \in stop_prices :
          ReturnTrades(
              engine_add_order(
                  [Begin("add_order", Len(orders) + 1) EXCEPT
                     !.orders = Append(@, NewOrder(Len(orders) + 1, symbol, side, type,
                                                   price, quantity, user_id,
                                                   stop_price, expiry))],
                  Len(orders) + 1))

Submit(types, prices, stop_prices, quantities, expiries) ==
    SubmitBy(Users, types, prices, stop_prices, quantities, expiries)

\* valid limit orders, and market orders (whose price is not read)
AddOrder ==
    \/ Submit({"LIMIT"}, ValidPrices, {0}, ValidQuantities, {0})
    \/ Submit({"MARKET"}, {0}, {0}, ValidQuantities, {0})

\* a client places a valid limit order through the controller, naming a
\* time in force
PlaceOrder ==
    /\ Ready
    /\ Len(orders) < MaxOrders
    /\ \E symbol \in Symbols, side \in Sides, user_id \in Users,
          quantity \in ValidQuantities, price \in ValidPrices, tif \in Tifs :
          ReturnTrades(
              place_order(
                  [BeginArgs("place_order", Len(orders) + 1, <<tif>>) EXCEPT
                     !.orders = Append(@, NewOrder(Len(orders) + 1, symbol, side, "LIMIT",
                                                   price, quantity, user_id, 0, 0))],
                  Len(orders) + 1, tif))

\* orders that add_order refuses: a limit price of 0 or above
\* MAX_ORDER_PRICE, a quantity of 0 or above MAX_ORDER_QUANTITY
AddInvalidOrder ==
    \/ Submit({"LIMIT"}, {0, MAX_ORDER_PRICE + 1}, {0}, {1}, {0})
    \/ Submit({"LIMIT", "MARKET"}, {1}, {0}, {0, MAX_ORDER_QUANTITY + 1}, {0})

\* valid limit orders, with or without an expiry time
AddLimitOrder ==
    Submit({"LIMIT"}, ValidPrices, {0}, ValidQuantities, Expiries)

CancelOrder ==
    /\ Ready
    /\ \E order_id \in OrderIds :
          ReturnBool(engine_cancel_order(Begin("cancel_order", order_id), order_id))

\* a modify that would construct more than MaxOrders objects is left out
ReturnBoolBounded(w) == Len(w.orders) <= MaxOrders /\ ReturnBool(w)

ModifyOrder ==
    /\ Ready
    /\ \E order_id \in OrderIds, new_price \in ValidPrices, new_quantity \in Quantities :
          ReturnBoolBounded(
              engine_modify_order(
                  BeginArgs("modify_order", order_id, <<new_price, new_quantity>>),
                  order_id, new_price, new_quantity))

CancelExpiredOrders ==
    /\ Ready
    /\ \E now \in Times :
          Commit(engine_cancel_expired_orders(
                     BeginArgs("cancel_expired_orders", 0, <<now>>), now))

Clear ==
    /\ Ready
    /\ Commit(engine_clear(Begin("clear", 0)))

\* limit and market orders, cancelled and modified
Next == AddOrder \/ CancelOrder \/ ModifyOrder

Spec == Init /\ [][Next]_vars

\* limit orders that may expire, cancelled, modified and swept
NextSweep == AddLimitOrder \/ CancelOrder \/ ModifyOrder \/ CancelExpiredOrders

SpecSweep == Init /\ [][NextSweep]_vars

\* limit orders placed with a time in force, cancelled and modified
NextTif == PlaceOrder \/ CancelOrder \/ ModifyOrder

SpecTif == Init /\ [][NextTif]_vars

\* valid and invalid orders, cancelled and modified
NextInvalid == AddOrder \/ AddInvalidOrder \/ CancelOrder \/ ModifyOrder

SpecInvalid == Init /\ [][NextInvalid]_vars

\* stop and stop-limit orders with a valid quantity
AddStopOrder ==
    Submit({"STOP", "STOP_LIMIT"}, ValidPrices, ValidPrices, ValidQuantities, {0})

\* limit, market and stop orders, cancelled and modified
NextStop == AddOrder \/ AddStopOrder \/ CancelOrder \/ ModifyOrder

SpecStop == Init /\ [][NextStop]_vars

\* two clients: limit, market and stop orders of either
TwoUsers == {"alice", "bob"}
AddOrderBy ==
    \/ SubmitBy(TwoUsers, {"LIMIT"}, ValidPrices, {0}, ValidQuantities, {0})
    \/ SubmitBy(TwoUsers, {"MARKET"}, {0}, {0}, ValidQuantities, {0})
    \/ SubmitBy(TwoUsers, {"STOP", "STOP_LIMIT"}, ValidPrices, ValidPrices,
                ValidQuantities, {0})

NextUsers == AddOrderBy \/ CancelOrder \/ ModifyOrder

SpecUsers == Init /\ [][NextUsers]_vars

\* limit and market orders, cancelled and modified, and the engine cleared
NextClear == AddOrder \/ CancelOrder \/ ModifyOrder \/ Clear

SpecClear == Init /\ [][NextClear]_vars

\* two instruments: the engine keeps one book for each
TwoSymbols == {"X", "Y"}

SubmitIn(symbols, types, prices, quantities) ==
    /\ Ready
    /\ Len(orders) < MaxOrders
    /\ \E symbol \in symbols, side \in Sides, type \in types, user_id \in Users,
          quantity \in quantities, price \in prices :
          ReturnTrades(
              engine_add_order(
                  [Begin("add_order", Len(orders) + 1) EXCEPT
                     !.orders = Append(@, NewOrder(Len(orders) + 1, symbol, side, type,
                                                   price, quantity, user_id, 0, 0))],
                  Len(orders) + 1))

AddOrderIn ==
    \/ SubmitIn(TwoSymbols, {"LIMIT"}, ValidPrices, ValidQuantities)
    \/ SubmitIn(TwoSymbols, {"MARKET"}, {0}, ValidQuantities)

NextSymbols == AddOrderIn \/ CancelOrder \/ ModifyOrder

SpecSymbols == Init /\ [][NextSymbols]_vars

\* limit orders, and stop and stop-limit orders with the limit price 1
AddLimitOrStop ==
    \/ Submit({"LIMIT"}, ValidPrices, {0}, ValidQuantities, {0})
    \/ Submit({"STOP", "STOP_LIMIT"}, {1}, ValidPrices, ValidQuantities, {0})

NextSleep == AddLimitOrStop \/ CancelOrder \/ ModifyOrder

SpecSleep == Init /\ [][NextSleep]_vars

\* ------------------------------------------- a book that is already open
\* MatchingEngine::MatchingEngine as a record
EmptyWorld ==
    [orders |-> <<>>, order_books |-> <<>>, order_id_to_symbol |-> <<>>,
     stats |-> [total_orders |-> 0, total_trades |-> 0, total_volume |-> 0],
     trade_history |-> <<>>, hung |-> FALSE, ret |-> FALSE, local |-> <<>>,
     call |-> NoCall]

\* a completed call seen from the next one: its return value and its
\* callbacks' deliveries are gone
Returned(w) == [w EXCEPT !.ret = FALSE, !.local = <<>>, !.call = NoCall]

\* engine.add_order of a new limit order, made before the run
earlier_limit_order(w, side, price, quantity) ==
    Returned(
        engine_add_order(
            [w EXCEPT !.orders = Append(@, NewOrder(Len(w.orders) + 1, SymbolOrder[1], side,
                                                    "LIMIT", price, quantity, "alice", 0, 0))],
            Len(w.orders) + 1))

\* the same at price 1
earlier_add_order(w, side, quantity) == earlier_limit_order(w, side, 1, quantity)

\* the state variables are those of the world w, no call made yet
StartFrom(w) ==
    /\ orders = w.orders
    /\ order_books = w.order_books
    /\ order_id_to_symbol = w.order_id_to_symbol
    /\ stats = w.stats
    /\ trade_history = w.trade_history
    /\ hung = w.hung
    /\ ncalls = 0
    /\ call = w.call
    /\ threads = [t \in Threads |-> IdleThread]
    /\ db = EmptyDb

\* the engine after two limit orders were added at one price: both resting,
\* or the second traded with the first
InitOpen ==
    \E side1 \in Sides, side2 \in Sides,
       quantity1 \in ValidQuantities, quantity2 \in ValidQuantities :
        StartFrom(earlier_add_order(earlier_add_order(EmptyWorld, side1, quantity1),
                                    side2, quantity2))

\* an open book, its orders modified and cancelled, new orders added
SpecOpen == InitOpen /\ [][Next]_vars

\* ------------------------------------- the controller's log and the replay
\* placeOrder, cancelOrder and modifyOrder write what they did to the tables
\* orders and actions; main reads the tables back into a new engine. The
\* statements are taken in the order the handlers issue them. No code of the
\* program inserts into the table trades, so the replay finds it empty.

\* the text stored in orders.status
status_text(status) ==
    CASE status = "FILLED" -> "filled"
      [] status = "PARTIAL" -> "partial"
      [] status = "REJECTED" -> "rejected"
      [] OTHER -> "open"

\* the request's side and type texts, as placeOrder and the replay read them
side_of(text) == IF text = "buy" THEN "BUY" ELSE "SELL"
type_of(text) ==
    IF text = "market" THEN "MARKET"
    ELSE IF text = "limit" THEN "LIMIT"
    ELSE IF text = "stop" THEN "STOP"
    ELSE "STOP_LIMIT"

\* a row of actions; cancelOrder leaves price and quantity NULL, read as 0
log_action(d, action, order_id, price, quantity) ==
    [d EXCEPT !.actions = Append(@, [action |-> action, order_id |-> order_id,
                                     price |-> price, quantity |-> quantity])]

\* the two INSERTs of placeOrder
log_order(d, o, side, type) ==
    log_action([d EXCEPT !.orders =
                    Append(@, [id |-> o.id, symbol |-> o.symbol, side |-> side,
                               type |-> type, price |-> o.price, quantity |-> o.quantity,
                               user_id |-> o.user_id, status |-> status_text(o.status)])],
               "add", o.id, o.price, o.quantity)

\* the engine is at w and the tables are d; `calls` requests have been
\* handled and the handlers' threads are at ths
CommitDb(w, d, calls, ths) ==
    /\ orders' = w.orders
    /\ order_books' = w.order_books
    /\ order_id_to_symbol' = w.order_id_to_symbol
    /\ stats' = w.stats
    /\ trade_history' = w.trade_history
    /\ hung' = w.hung
    /\ ncalls' = calls
    /\ call' = w.call
    /\ threads' = ths
    /\ db' = d

placed(w, h, side, type) ==
    CommitDb([w EXCEPT !.call.trades = w.ret],
             IF w.hung THEN db ELSE log_order(db, w.orders[h], side, type),
             ncalls + 1, threads)

\* OrderBookController::placeOrder with its database writes; the id is new
PlaceOrderLogged ==
    /\ Ready
    /\ Len(orders) < MaxOrders
    /\ Len(db.orders) < MaxOrders
    /\ \E symbol \in Symbols, side \in {"buy", "sell"}, type \in {"limit", "market"},
          user_id \in Users, quantity \in ValidQuantities, price \in ValidPrices,
          tif \in Tifs :
          placed(
              place_order(
                  [BeginArgs("place_order", Len(db.orders) + 1, <<tif>>) EXCEPT
                     !.orders = Append(@, NewOrder(Len(db.orders) + 1, symbol, side_of(side),
                                                   type_of(type), price, quantity, user_id,
                                                   0, 0))],
                  Len(orders) + 1, tif),
              Len(orders) + 1, side, type)

cancelled(w, order_id) ==
    CommitDb([w EXCEPT !.call.ret = w.ret],
             IF w.ret THEN log_action(db, "cancel", order_id, 0, 0) ELSE db,
             ncalls + 1, threads)

\* OrderBookController::cancelOrder
CancelOrderLogged ==
    /\ Ready
    /\ \E order_id \in OrderIds :
          cancelled(engine_cancel_order(Begin("cancel_order", order_id), order_id), order_id)

modified(w, order_id, new_price, new_quantity) ==
    /\ Len(w.orders) <= MaxOrders
    /\ CommitDb([w EXCEPT !.call.ret = w.ret],
                IF ~w.hung /\ w.ret
                THEN log_action(db, "modify", order_id, new_price, new_quantity)
                ELSE db,
                ncalls + 1, threads)

\* OrderBookController::modifyOrder
ModifyOrderLogged ==
    /\ Ready
    /\ \E order_id \in OrderIds, new_price \in ValidPrices, new_quantity \in Quantities :
          modified(
              engine_modify_order(
                  BeginArgs("modify_order", order_id, <<new_price, new_quantity>>),
                  order_id, new_price, new_quantity),
              order_id, new_price, new_quantity)

\* the rows of actions in the replay: cancel and modify are applied
RECURSIVE replay_actions(_, _, _)
replay_actions(w, actions, i) ==
    IF i > Len(actions) \/ w.hung THEN w
    ELSE IF actions[i].action = "cancel"
         THEN replay_actions(Returned(engine_cancel_order(w, actions[i].order_id)),
                             actions, i + 1)
    ELSE IF actions[i].action = "modify"
         THEN replay_actions(
                  Returned(engine_modify_order(w, actions[i].order_id, actions[i].price,
                                               actions[i].quantity)),
                  actions, i + 1)
    ELSE replay_actions(w, actions, i + 1)

\* the rows of orders in the replay: open and partial orders are added again
RECURSIVE restore_orders(_, _, _)
restore_orders(w, rows, i) ==
    IF i > Len(rows) \/ w.hung THEN w
    ELSE IF rows[i].status \in {"open", "partial"}
         THEN restore_orders(
                  Returned(
                      engine_add_order(
                          [w EXCEPT !.orders =
                               Append(@, NewOrder(rows[i].id, rows[i].symbol,
                                                  side_of(rows[i].side), type_of(rows[i].type),
                                                  rows[i].price, rows[i].quantity,
                                                  rows[i].user_id, 0, 0))],
                          Len(w.orders) + 1)),
                  rows, i + 1)
    ELSE restore_orders(w, rows, i + 1)

\* main: a new engine, the actions in the order of their time stamps, then
\* the orders
replay_db_state(d) == restore_orders(replay_actions(EmptyWorld, d.actions, 1), d.orders, 1)

\* the server is stopped and started again
Restart ==
    /\ Ready
    /\ CommitDb([replay_db_state(db) EXCEPT !.call.op = "replay"], db, ncalls + 1, threads)

NextReplay == PlaceOrderLogged \/ CancelOrderLogged \/ ModifyOrderLogged \/ Restart

SpecReplay == Init /\ [][NextReplay]_vars

\* ----------------------------------- modify_order called from two threads
\* MatchingEngine::modify_order holds engine_mutex_ shared, so calls of it run
\* side by side; inside OrderBook::modify_order each stretch of code under
\* one lock, and each stretch under none, is one step of the calling thread.
\* (add_order, cancel_order, clear and cancel_expired_orders hold the engine
\* lock exclusively: they happen before or after, not in between.)

\* a step of thread t is over: the world is w, the thread is at th
CommitStep(w, t, th) ==
    /\ orders' = w.orders
    /\ order_books' = w.order_books
    /\ order_id_to_symbol' = w.order_id_to_symbol
    /\ stats' = w.stats
    /\ trade_history' = w.trade_history
    /\ hung' = w.hung
    /\ ncalls' = ncalls
    /\ call' = w.call
    /\ threads' = [threads EXCEPT ![t] = th]
    /\ db' = db

\* the thread returns from modify_order
thread_return(th, ret) == [th EXCEPT !.pc = "done", !.ret = ret]

\* the world in which thread t makes a step
StepWorld(t) == BeginArgs("modify_order_step", threads[t].order_id, <<t>>)

\* the two lookups at the entry: order_id_to_symbol_ under the engine lock,
\* orders_by_id_ under orders_mutex_
ModifyLookup(t) ==
    /\ ~hung /\ threads[t].pc = "idle"
    /\ \E order_id \in OrderIds, new_price \in ValidPrices, new_quantity \in Quantities :
          CommitStep(
              [World EXCEPT !.call.op = "modify_order_step", !.call.id = order_id,
                            !.call.args = <<t>>],
              t,
              IF engine_get_order(World, order_id) = 0
              THEN thread_return([threads[t] EXCEPT !.order_id = order_id,
                                                    !.new_price = new_price,
                                                    !.new_quantity = new_quantity], FALSE)
              ELSE [threads[t] EXCEPT !.pc = "check", !.order_id = order_id,
                                      !.new_price = new_price,
                                      !.new_quantity = new_quantity,
                                      !.symbol = order_id_to_symbol[order_id],
                                      !.order = engine_get_order(World, order_id)])

\* the early returns and the in-place branch, under no lock
ModifyCheck(t) ==
    /\ ~hung /\ threads[t].pc = "check"
    /\ IF \/ orders[threads[t].order].status \in {"FILLED", "CANCELLED"}
          \/ orders[threads[t].order].filled_quantity >= orders[threads[t].order].quantity
       THEN CommitStep(StepWorld(t), t, thread_return(threads[t], FALSE))
       ELSE IF /\ threads[t].new_quantity <= orders[threads[t].order].quantity
               /\ threads[t].new_price = orders[threads[t].order].price
            THEN CommitStep(
                     order_update_callback(
                         [StepWorld(t) EXCEPT
                            !.orders[threads[t].order].quantity = threads[t].new_quantity],
                         threads[t].order),
                     t, thread_return(threads[t], TRUE))
            ELSE CommitStep(StepWorld(t), t, [threads[t] EXCEPT !.pc = "cancel_lookup"])

\* cancel_order: the lookup under orders_mutex_; not found, it returns false
CancelLookup(t) ==
    /\ ~hung /\ threads[t].pc = "cancel_lookup"
    /\ CommitStep(StepWorld(t), t,
          IF get_order(World, threads[t].symbol, threads[t].order_id) = 0
          THEN [threads[t] EXCEPT !.pc = "readd"]
          ELSE [threads[t] EXCEPT
                  !.pc = "cancel_mark",
                  !.cancelling = get_order(World, threads[t].symbol, threads[t].order_id)])

\* cancel_order: the status test and status = CANCELLED, under no lock
CancelMark(t) ==
    /\ ~hung /\ threads[t].pc = "cancel_mark"
    /\ IF orders[threads[t].cancelling].status \in {"FILLED", "CANCELLED"}
       THEN CommitStep(StepWorld(t), t, [threads[t] EXCEPT !.pc = "readd"])
       ELSE CommitStep(SetStatus(StepWorld(t), threads[t].cancelling, "CANCELLED"), t,
                       [threads[t] EXCEPT !.pc = "cancel_level"])

\* cancel_order: remove_order_from_level under order_book_mutex_
CancelLevel(t) ==
    /\ ~hung /\ threads[t].pc = "cancel_level"
    /\ CommitStep(
          IF orders[threads[t].cancelling].type = "LIMIT"
          THEN remove_order_from_level(StepWorld(t), threads[t].symbol, threads[t].cancelling)
          ELSE StepWorld(t),
          t, [threads[t] EXCEPT !.pc = "cancel_erase"])

\* cancel_order: orders_by_id_.erase under orders_mutex_, then the callback
CancelErase(t) ==
    /\ ~hung /\ threads[t].pc = "cancel_erase"
    /\ CommitStep(
          order_update_callback(
              [StepWorld(t) EXCEPT
                 !.order_books[threads[t].symbol].orders_by_id =
                     MapErase(@, threads[t].order_id)],
              threads[t].cancelling),
          t, [threads[t] EXCEPT !.pc = "readd"])

\* the new order of modify_order, built from the fields of the one found
modified_order(o, new_price, new_quantity) ==
    NewOrder(o.id, o.symbol, o.side, o.type, new_price, new_quantity, o.user_id, 0, 0)

\* make_shared, then add_order up to the switch: the validation, the
\* insertion into orders_by_id_ under orders_mutex_, total_orders_++
ReaddInsert(t) ==
    /\ ~hung /\ threads[t].pc = "readd"
    /\ IF ~ValidOrder(modified_order(orders[threads[t].order], threads[t].new_price,
                                     threads[t].new_quantity))
       THEN CommitStep(
                SetStatus([StepWorld(t) EXCEPT
                             !.orders = Append(@, modified_order(orders[threads[t].order],
                                                                 threads[t].new_price,
                                                                 threads[t].new_quantity))],
                          Len(orders) + 1, "REJECTED"),
                t, thread_return([threads[t] EXCEPT !.new_order = Len(orders) + 1], TRUE))
       ELSE CommitStep(
                [StepWorld(t) EXCEPT
                   !.orders = Append(@, modified_order(orders[threads[t].order],
                                                       threads[t].new_price,
                                                       threads[t].new_quantity)),
                   !.order_books[threads[t].symbol].orders_by_id =
                       MapPut(@, threads[t].order_id, Len(orders) + 1),
                   !.order_books[threads[t].symbol].total_orders = @ + 1],
                t, [threads[t] EXCEPT !.pc = "switch", !.new_order = Len(orders) + 1])

\* the step is over unless match_orders never returned
CommitUnlessHung(w, t, th) == CommitStep(w, t, IF w.hung THEN threads[t] ELSE th)

\* the match of the re-added order; its trades are kept in the thread
matched(w, t, pc) == CommitUnlessHung(w, t, [threads[t] EXCEPT !.pc = pc, !.trades = w.ret])

\* add_order's switch: for a limit order match_orders, under
\* order_book_mutex_; the other types' handlers as a whole
ReaddMatch(t) ==
    /\ ~hung /\ threads[t].pc = "switch"
    /\ IF orders[threads[t].new_order].type = "LIMIT"
       THEN matched(match_orders(StepWorld(t), threads[t].symbol, threads[t].new_order),
                    t, "rest")
       ELSE matched([add_order_switch(StepWorld(t), threads[t].symbol, threads[t].new_order)
                        EXCEPT !.ret = <<>>],
                    t, "finish")

\* add_order: an unfilled limit order goes to its level, in
\* process_limit_order under order_book_mutex_
ReaddRest(t) ==
    /\ ~hung /\ threads[t].pc = "rest"
    /\ CommitStep(
          IF orders[threads[t].new_order].quantity > orders[threads[t].new_order].filled_quantity
          THEN process_limit_order(StepWorld(t), threads[t].symbol, threads[t].new_order)
          ELSE StepWorld(t),
          t, [threads[t] EXCEPT !.pc = "finish"])

\* add_order's tail, under no lock, and modify_order's return true
ReaddFinish(t) ==
    /\ ~hung /\ threads[t].pc = "finish"
    /\ CommitStep(
          store_trades(
              order_update_callback(final_status(StepWorld(t), threads[t].new_order),
                                    threads[t].new_order),
              threads[t].symbol, threads[t].trades),
          t, thread_return(threads[t], TRUE))

NextThreads ==
    \E t \in Threads :
        \/ ModifyLookup(t) \/ ModifyCheck(t)
        \/ CancelLookup(t) \/ CancelMark(t) \/ CancelLevel(t) \/ CancelErase(t)
        \/ ReaddInsert(t) \/ ReaddMatch(t) \/ ReaddRest(t) \/ ReaddFinish(t)

\* the engine after two limit orders were added, no thread in it yet
InitThreads ==
    \E side1 \in Sides, side2 \in Sides, price1 \in ValidPrices, price2 \in ValidPrices,
       quantity1 \in ValidQuantities, quantity2 \in ValidQuantities :
        StartFrom(earlier_limit_order(
                      earlier_limit_order(EmptyWorld, side1, price1, quantity1),
                      side2, price2, quantity2))

SpecThreads == InitThreads /\ [][NextThreads]_vars

\* the step thread t is about to take runs inside
\* std::unique_lock lock(order_book_mutex_): remove_order_from_level in
\* cancel_order, match_orders, process_limit_order
holds_order_book_mutex(t) ==
    \/ threads[t].pc = "cancel_level" /\ orders[threads[t].cancelling].type = "LIMIT"
    \/ threads[t].pc = "switch" /\ orders[threads[t].new_order].type = "LIMIT"
    \/ /\ threads[t].pc = "rest"
       /\ orders[threads[t].new_order].quantity > orders[threads[t].new_order].filled_quantity

\* ------------------------------------------------ the locks of the engine
\* Which mutexes each operation takes, in the order of its code. A thread
\* asks for a mutex (the constructor of std::unique_lock / std::shared_lock
\* is entered), gets it when the mutex allows, and gives it back at the end
\* of the lock's scope. Where an operation branches on data, the path with
\* the most locks is taken: the order is found, is a limit order and rests.
unique_lock(m) == [do |-> "lock", m |-> m]
shared_lock(m) == [do |-> "lock_shared", m |-> m]
unlock(m) == [do |-> "unlock", m |-> m]

add_order_locks ==
    <<unique_lock("orders_mutex_"), unlock("orders_mutex_"),
      unique_lock("order_book_mutex_"), unlock("order_book_mutex_"),
      unique_lock("order_book_mutex_"), unlock("order_book_mutex_")>>

cancel_order_locks ==
    <<shared_lock("orders_mutex_"), unlock("orders_mutex_"),
      unique_lock("order_book_mutex_"), unlock("order_book_mutex_"),
      unique_lock("orders_mutex_"), unlock("orders_mutex_")>>

modify_order_locks ==
    <<shared_lock("orders_mutex_"), unlock("orders_mutex_")>>
        \o cancel_order_locks \o add_order_locks

cancel_expired_orders_locks ==
    <<shared_lock("orders_mutex_"), unlock("orders_mutex_")>> \o cancel_order_locks

clear_locks ==
    <<unique_lock("order_book_mutex_"), unique_lock("orders_mutex_"),
      unlock("orders_mutex_"), unlock("order_book_mutex_")>>

\* get_order and get_order_count
get_order_locks == <<shared_lock("orders_mutex_"), unlock("orders_mutex_")>>

\* get_bid_levels and get_ask_levels
get_levels_locks == <<shared_lock("order_book_mutex_"), unlock("order_book_mutex_")>>

\* the metric keeps its own shared lock while the getters take theirs
average_spread_locks ==
    <<shared_lock("order_book_mutex_")>>
        \o get_levels_locks \o get_levels_locks
        \o <<unlock("order_book_mutex_")>>

cancellation_rate_locks ==
    <<shared_lock("order_book_mutex_")>> \o get_order_locks
        \o <<unlock("order_book_mutex_")>>

\* a MatchingEngine method: the engine lock around the book's operation
engine_locks(lock, book_locks) == <<lock>> \o book_locks \o <<unlock("engine_mutex_")>>

LockPrograms ==
    [idle |-> <<>>,
     engine_add_order |-> engine_locks(unique_lock("engine_mutex_"), add_order_locks),
     engine_cancel_order |-> engine_locks(unique_lock("engine_mutex_"), cancel_order_locks),
     engine_modify_order |-> engine_locks(shared_lock("engine_mutex_"), modify_order_locks),
     engine_clear |-> engine_locks(unique_lock("engine_mutex_"), clear_locks),
     engine_cancel_expired_orders |->
         engine_locks(unique_lock("engine_mutex_"), cancel_expired_orders_locks),
     engine_get_order |-> engine_locks(shared_lock("engine_mutex_"), get_order_locks),
     engine_get_all_orders |->
         engine_locks(shared_lock("engine_mutex_"),
                      get_levels_locks \o get_levels_locks),
     add_order |-> add_order_locks,
     cancel_order |-> cancel_order_locks,
     modify_order |-> modify_order_locks,
     average_spread |-> average_spread_locks,
     cancellation_rate |-> cancellation_rate_locks]

\* a thread in no operation: `held` lists the locks it owns, `waiting` says
\* it has asked for the mutex of its next instruction, `behind` that the
\* mutex serves it after the writers that wait
IdleLocker == [op |-> "idle", pc |-> 1, waiting |-> FALSE, behind |-> FALSE, held |-> <<>>]

InOperation(t) == threads[t].pc <= Len(LockPrograms[threads[t].op])

Instruction(t) == LockPrograms[threads[t].op][threads[t].pc]

\* thread t owns mutex m by a lock of one of the kinds
Holds(t, m, kinds) ==
    \E i \in 1..Len(threads[t].held) :
        threads[t].held[i].m = m /\ threads[t].held[i].do \in kinds

WaitsFor(t, m, do) ==
    /\ InOperation(t)
    /\ threads[t].waiting
    /\ Instruction(t).m = m
    /\ Instruction(t).do = do

\* std::shared_mutex: a writer needs the mutex free; a reader needs it free
\* of writers, and of waiting writers where the mutex puts writers first
Grantable(t) ==
    /\ InOperation(t)
    /\ threads[t].waiting
    /\ IF Instruction(t).do = "lock"
       THEN \A u \in Threads : ~Holds(u, Instruction(t).m, {"lock", "lock_shared"})
       ELSE /\ \A u \in Threads \ {t} : ~Holds(u, Instruction(t).m, {"lock"})
            /\ threads[t].behind =>
                   \A u \in Threads \ {t} : ~WaitsFor(u, Instruction(t).m, "lock")

LockStep(t, th) ==
    /\ threads' = [threads EXCEPT ![t] = th]
    /\ UNCHANGED <<orders, order_books, order_id_to_symbol, stats, trade_history, hung,
                   ncalls, call, db>>

\* a thread outside every operation calls one
LockBegin(t) ==
    /\ ~InOperation(t)
    /\ \E op \in (DOMAIN LockPrograms) \ {"idle"} : LockStep(t, [IdleLocker EXCEPT !.op = op])

\* the thread enters the constructor of a lock. Whether a reader is served
\* before the writers that wait is the mutex's choice; for a thread that
\* owns the mutex already the standard leaves the behaviour undefined, and
\* being served after the waiting writers is one thing a build does.
LockRequest(t) ==
    /\ InOperation(t)
    /\ ~threads[t].waiting
    /\ Instruction(t).do # "unlock"
    /\ \E behind \in BOOLEAN :
           /\ behind => Instruction(t).do = "lock_shared"
           /\ LockStep(t, [threads[t] EXCEPT !.waiting = TRUE, !.behind = behind])

LockAcquire(t) ==
    /\ Grantable(t)
    /\ LockStep(t, [threads[t] EXCEPT !.waiting = FALSE, !.behind = FALSE,
                                      !.pc = @ + 1,
                                      !.held = Append(@, Instruction(t))])

\* the innermost lock on the mutex goes out of scope
LockRelease(t) ==
    /\ InOperation(t)
    /\ Instruction(t).do = "unlock"
    /\ LockStep(t, [threads[t] EXCEPT
                        !.pc = @ + 1,
                        !.held = SeqErase(@, SetMax({i \in 1..Len(@) :
                                                           @[i].m = Instruction(t).m}))])

NextLocks ==
    \E t \in Threads :
        LockBegin(t) \/ LockRequest(t) \/ LockAcquire(t) \/ LockRelease(t)

InitLocks ==
    /\ orders = <<>>
    /\ order_books = <<>>
    /\ order_id_to_symbol = <<>>
    /\ stats = [total_orders |-> 0, total_trades |-> 0, total_volume |-> 0]
    /\ trade_history = <<>>
    /\ hung = FALSE
    /\ ncalls = 0
    /\ call = NoCall
    /\ threads = [t \in Threads |-> IdleLocker]
    /\ db = EmptyDb

SpecLocks == InitLocks /\ [][NextLocks]_vars

\* ------------------------------------ placeOrder called from two threads
\* The controller's handlers run on the server's worker threads. Inside
\* placeOrder each engine call holds engine_mutex_ exclusively from entry to
\* return, so each is one step; between engine->add_order and
\* engine->cancel_order the handler holds no lock.

\* a thread that has not entered placeOrder; each thread handles one request
IdlePlacer == [pc |-> "idle", tif |-> "GTC", side |-> "", type |-> "", order |-> 0,
               trades |-> <<>>]

\* the step of thread t is over; a thread whose engine call never returns
\* stays where it is. The handler's INSERTs are issued on its last step
CommitPlace(w, t, th, d) ==
    CommitDb(w, d, ncalls, [threads EXCEPT ![t] = IF w.hung THEN @ ELSE th])

\* placeOrder up to the return of engine->add_order
PlaceAdd(t) ==
    /\ ~hung /\ threads[t].pc = "idle"
    /\ Len(orders) < MaxOrders
    /\ \E symbol \in Symbols, side \in {"buy", "sell"}, type \in {"limit", "market"},
          user_id \in Users, quantity \in ValidQuantities, price \in ValidPrices,
          tif \in Tifs :
          CommitPlace(
              engine_add_order(
                  [BeginArgs("place_order_add", Len(orders) + 1, <<tif, t>>) EXCEPT
                     !.orders = Append(@, NewOrder(Len(orders) + 1, symbol, side_of(side),
                                                   type_of(type), price, quantity, user_id,
                                                   0, 0))],
                  Len(orders) + 1),
              t,
              [pc |-> "added", tif |-> tif, side |-> side, type |-> type,
               order |-> Len(orders) + 1, trades |-> <<>>],
              db)

\* the rest of placeOrder: the cancel of an IOC or FOK order that is not
\* filled, then the database writes
PlaceCancel(t) ==
    /\ ~hung /\ threads[t].pc = "added"
    /\ CommitPlace(
          place_order_tif(BeginArgs("place_order_cancel", threads[t].order,
                                    <<threads[t].tif, t>>),
                          threads[t].order, threads[t].tif),
          t, [threads[t] EXCEPT !.pc = "done"],
          log_order(db,
                    place_order_tif(World, threads[t].order, threads[t].tif)
                        .orders[threads[t].order],
                    threads[t].side, threads[t].type))

NextPlace == \E t \in Threads : PlaceAdd(t) \/ PlaceCancel(t)

InitPlace ==
    /\ orders = <<>>
    /\ order_books = <<>>
    /\ order_id_to_symbol = <<>>
    /\ stats = [total_orders |-> 0, total_trades |-> 0, total_volume |-> 0]
    /\ trade_history = <<>>
    /\ hung = FALSE
    /\ ncalls = 0
    /\ call = NoCall
    /\ threads = [t \in Threads |-> IdlePlacer]
    /\ db = EmptyDb

SpecPlace == InitPlace /\ [][NextPlace]_vars

\* ================================================================ claims
Books == {order_books[s] : s \in DOMAIN order_books}
LevelsOf(book) ==
    {book.buy_orders[p] : p \in DOMAIN book.buy_orders}
        \cup {book.sell_orders[p] : p \in DOMAIN book.sell_orders}
Fills == {call.fills[i] : i \in 1..Len(call.fills)}
Handles == 1..Len(orders)

RECURSIVE SumRemaining(_)
SumRemaining(hs) ==
    IF hs = <<>> THEN 0 ELSE Remaining(orders[Head(hs)]) + SumRemaining(Tail(hs))

\* C1: whenever both sides of a book hold a level, the best bid is strictly
\* below the best ask
C1_NotCrossed ==
    \A book \in Books :
        (DOMAIN book.buy_orders # {} /\ DOMAIN book.sell_orders # {})
            => get_best_bid(book) < get_best_ask(book)

\* a crossing order has traded and left orders resting on both sides
C1_Witness ==
    /\ call.op \in {"add_order", "modify_order"}
    /\ call.fills # <<>>
    /\ \E book \in Books : DOMAIN book.buy_orders # {} /\ DOMAIN book.sell_orders # {}

\* C2: every price level's total_quantity is the sum of the remaining
\* quantities of the orders in its FIFO
C2_LevelTotal ==
    \A book \in Books : \A level \in LevelsOf(book) :
        level.total_quantity = SumRemaining(level.orders)

\* C3: time priority: a fill goes to the earliest-inserted order of its
\* level that still has quantity (orders enter a level in the call that
\* constructs them, so a lower handle is an earlier insertion)
C3_TimePriority ==
    \A f \in Fills : \A g \in f.levelOpen : g >= f.maker

\* a fill at a level where two orders were waiting with quantity
C3_Witness ==
    \E f \in Fills : Cardinality(f.levelOpen) >= 2

\* C4: price priority: no fill happens at a price while a strictly better
\* opposing level still holds an order with remaining quantity
C4_PricePriority ==
    \A f \in Fills : \A p \in f.oppOpen :
        IF orders[f.taker].side = "BUY" THEN p >= f.trade.price
        ELSE p <= f.trade.price

\* a fill made while two opposing price levels had quantity
C4_Witness ==
    \E f \in Fills : Cardinality(f.oppOpen) >= 2

\* C5: every trade is priced at the resting order's price
C5_MakerPrice ==
    \A f \in Fills : f.trade.price = orders[f.maker].price

\* a limit taker traded at a price other than its own limit
C5_Witness ==
    \E f \in Fills :
        /\ orders[f.taker].type = "LIMIT"
        /\ orders[f.taker].price # f.trade.price

\* quantity traded by order object h in a list of fills
RECURSIVE FilledBy(_, _)
FilledBy(fs, h) ==
    IF fs = <<>> THEN 0
    ELSE (IF h \in {Head(fs).taker, Head(fs).maker} THEN Head(fs).trade.quantity ELSE 0)
            + FilledBy(Tail(fs), h)

\* C6: conservation: in every call each order's filled_quantity grows by
\* exactly the quantities of the trades it is a party of, the parties being
\* the buy and the sell order the trade names; no other order's changes
C6_Conservation ==
    [][ /\ \A h \in 1..Len(orders') :
            orders'[h].filled_quantity =
                Add(IF h <= Len(orders) THEN orders[h].filled_quantity ELSE 0,
                    FilledBy(call'.fills, h) % Modulus)
        /\ \A i \in 1..Len(call'.fills) :
            LET f == call'.fills[i]
                buyer == IF orders'[f.taker].side = "BUY" THEN f.taker ELSE f.maker
                seller == IF orders'[f.taker].side = "BUY" THEN f.maker ELSE f.taker
            IN  /\ buyer # seller
                /\ orders'[buyer].side = "BUY" /\ orders'[seller].side = "SELL"
                /\ orders'[buyer].id = f.trade.buy_order_id
                /\ orders'[seller].id = f.trade.sell_order_id
                /\ f.trade.quantity > 0
      ]_vars

\* a call that produced two trades
C6_Witness == Len(call.fills) >= 2

\* C7: filled_quantity never exceeds quantity
C7_FilledWithinQuantity ==
    \A h \in Handles : orders[h].filled_quantity <= orders[h].quantity

\* the orders a book knows: those of its id index
Known == UNION {{book.orders_by_id[id] : id \in DOMAIN book.orders_by_id} : book \in Books}

\* C8: for every order known to a book, Filled iff filled = quantity and
\* Partial iff 0 < filled < quantity
C8_StatusConsistent ==
    \A h \in Known :
        LET o == orders[h]
        IN  /\ (o.status = "FILLED") <=> (o.filled_quantity = o.quantity)
            /\ (o.status = "PARTIAL") <=>
                   (0 < o.filled_quantity /\ o.filled_quantity < o.quantity)

\* C9: no assignment to an order's status leaves a terminal status, and
\* Partial is left only for Filled or Cancelled
C9_TerminalIsFinal ==
    \A i \in 1..Len(call.trans) :
        LET t == call.trans[i]
        IN  /\ t.from \in Terminal => t.to = t.from
            /\ t.from = "PARTIAL" => t.to \in {"PARTIAL", "FILLED", "CANCELLED"}

\* the engine and book state a call leaves behind
EngineState == <<orders, order_books, order_id_to_symbol, stats, trade_history>>

\* C10: a cancel_order that follows a cancel_order of the same id returns
\* false and leaves the engine and its books as the first left them
C10_IdempotentCancel ==
    [][ (call.op = "cancel_order" /\ call'.op = "cancel_order" /\ call'.id = call.id)
            => (call'.ret = FALSE /\ EngineState' = EngineState) ]_vars

\* a cancel has returned true and a second one of the same id returns false
C10_Witness ==
    /\ call.op = "cancel_order" /\ call.ret = TRUE
    /\ engine_cancel_order(World, call.id).ret = FALSE
\* the order the engine finds under an id (0: none) in the current state
Found(order_id) == engine_get_order(World, order_id)

\* C11: cancel_order(id) returns true exactly when the order exists in the
\* book and its status is New or Partial; for a Filled, Cancelled or
\* Rejected order it returns false
C11_CancelIffOpen ==
    [][ call'.op = "cancel_order"
            => (call'.ret = TRUE <=>
                    (Found(call'.id) # 0
                     /\ orders[Found(call'.id)].status \in {"NEW", "PARTIAL"})) ]_vars

\* C12: modify_order returns false and changes nothing of the engine and
\* its books when the id is unknown, the order's status is Filled, Cancelled
\* or Rejected, or the order is already fully filled
C12_ModifyRefused ==
    [][ (/\ call'.op = "modify_order"
         /\ ~hung'
         /\ \/ Found(call'.id) = 0
            \/ orders[Found(call'.id)].status \in Terminal
            \/ orders[Found(call'.id)].filled_quantity >= orders[Found(call'.id)].quantity)
            => (call'.ret = FALSE /\ EngineState' = EngineState) ]_vars

\* C13: when modify_order(id, new_price, new_quantity) has returned true,
\* get_order(id) gives an order with that id, price new_price and quantity
\* new_quantity
C13_ModifiedIsReadBack ==
    (call.op = "modify_order" /\ ~hung /\ call.ret = TRUE)
        => /\ Found(call.id) # 0
           /\ orders[Found(call.id)].id = call.id
           /\ orders[Found(call.id)].price = call.args[1]
           /\ orders[Found(call.id)].quantity = call.args[2]

\* the FIFO of the level an order of that side and price rests in
LevelOrders(h) ==
    IF /\ orders[h].symbol \in DOMAIN order_books
       /\ orders[h].price \in DOMAIN order_books[orders[h].symbol][SideField(orders[h].side)]
    THEN order_books[orders[h].symbol][SideField(orders[h].side)][orders[h].price].orders
    ELSE <<>>

\* the order object h is in the FIFO of its level
Resting(h) == SeqFind(LevelOrders(h), h, 1) # 0

\* C14: an in-place modify of a resting order (its own price, a quantity up
\* to its remaining quantity) is read back with exactly that quantity, and
\* the FIFO of its level is as it was
C14_InPlaceRoundTrip ==
    [][ \A h \in Handles :
          (/\ call'.op = "modify_order"
           /\ h = Found(call'.id)
           /\ Resting(h)
           /\ call'.args[1] = orders[h].price
           /\ call'.args[2] <= Remaining(orders[h]))
              => /\ Found(call.id)' = h
                 /\ orders'[h].quantity = call'.args[2]
                 /\ LevelOrders(h)' = LevelOrders(h) ]_vars

\* C15: a modify_order that changes the price or raises the quantity puts
\* the order behind every order already resting at its level: when it rests
\* afterwards it is the last of the level's FIFO, and the orders before it
\* were resting before the call
C15_ModifyLosesPriority ==
    [][ \A h \in Handles : \A n \in 1..Len(orders') :
          (/\ call'.op = "modify_order" /\ ~hung' /\ call'.ret = TRUE
           /\ h = Found(call'.id)
           /\ (call'.args[1] # orders[h].price \/ call'.args[2] > orders[h].quantity)
           /\ n = Found(call.id)'
           /\ Resting(n)')
              => /\ LevelOrders(n)'[Len(LevelOrders(n)')] = n
                 /\ \A i \in 1..(Len(LevelOrders(n)') - 1) :
                        /\ LevelOrders(n)'[i] \in Handles
                        /\ Resting(LevelOrders(n)'[i]) ]_vars

\* a modified order has been re-added behind an order that was resting
C15_Witness ==
    /\ call.op = "modify_order" /\ call.ret = TRUE
    /\ Found(call.id) = Len(orders)
    /\ orders[Len(orders)].id # Len(orders)
    /\ Resting(Len(orders))
    /\ Len(LevelOrders(Len(orders))) >= 2

\* the trades delivered to the trade callback, in the order of delivery
RECURSIVE TradesOf(_)
TradesOf(events) ==
    IF events = <<>> THEN <<>>
    ELSE (IF Head(events).kind = "trade" THEN <<Head(events).trade>> ELSE <<>>)
            \o TradesOf(Tail(events))

\* the trades among ts that are in symbol s
RECURSIVE InSymbol(_, _)
InSymbol(ts, s) ==
    IF ts = <<>> THEN <<>>
    ELSE (IF Head(ts).symbol = s THEN <<Head(ts)>> ELSE <<>>) \o InSymbol(Tail(ts), s)

\* C16: add_order returns exactly the trades its call delivered to the
\* trade callback, and they are appended to the trade history of the book
C16_ReturnsItsTrades ==
    [][ (call'.op = "add_order" /\ ~hung')
            => /\ call'.trades = TradesOf(call'.events)
               /\ \A s \in DOMAIN order_books' :
                    order_books'[s].trade_history =
                        (IF s \in DOMAIN order_books THEN order_books[s].trade_history
                         ELSE <<>>) \o InSymbol(TradesOf(call'.events), s) ]_vars

\* C17: a Market order never rests in a price level, and whenever add_order
\* returns with part of it unfilled its status is Rejected
C17_MarketRejectedIfUnfilled ==
    /\ \A h \in Handles : orders[h].type = "MARKET" => ~Resting(h)
    /\ (/\ call.op = "add_order" /\ ~hung
        /\ orders[call.id].type = "MARKET"
        /\ orders[call.id].filled_quantity < orders[call.id].quantity)
           => orders[call.id].status = "REJECTED"

\* MatchingEngine::get_best_bid / get_best_ask for the side, 0 without a book
BestOwn(h) ==
    IF orders[h].symbol \notin DOMAIN order_books THEN 0
    ELSE IF orders[h].side = "BUY" THEN get_best_bid(order_books[orders[h].symbol])
    ELSE get_best_ask(order_books[orders[h].symbol])

\* the best price of a side before the order of that call was constructed
BestOwnBefore(side, symbol) ==
    IF symbol \notin DOMAIN order_books THEN 0
    ELSE IF side = "BUY" THEN get_best_bid(order_books[symbol])
    ELSE get_best_ask(order_books[symbol])

\* C18: when the placing of an IOC limit order is over, the order is in no
\* price level, an unfilled remainder has status Cancelled, the best price
\* of its own side is what it was before, and the trades it made are in the
\* trade history
C18_IocDoesNotRest ==
    [][ \A h \in 1..Len(orders') :
          (call'.op = "place_order" /\ call'.args = <<"IOC">> /\ ~hung' /\ h = call'.id)
              => /\ ~Resting(h)'
                 /\ orders'[h].filled_quantity < orders'[h].quantity
                        => orders'[h].status = "CANCELLED"
                 /\ BestOwn(h)' = BestOwnBefore(orders'[h].side, orders'[h].symbol)
                 /\ trade_history' = trade_history \o TradesOf(call'.events) ]_vars

\* an IOC order has traded, its remainder is cancelled, and it would have
\* improved the best price of its side had it rested
C18_Witness ==
    /\ call.op = "place_order" /\ call.args = <<"IOC">>
    /\ call.fills # <<>>
    /\ orders[call.id].status = "CANCELLED"
    /\ BestOwn(call.id) # 0
    /\ IF orders[call.id].side = "BUY" THEN BestOwn(call.id) < orders[call.id].price
       ELSE BestOwn(call.id) > orders[call.id].price

\* C19: a FOK order is either completely filled by its initial match or
\* makes no trade at all
C19_FokAllOrNothing ==
    (call.op = "place_order" /\ call.args = <<"FOK">> /\ ~hung)
        => \/ orders[call.id].filled_quantity = orders[call.id].quantity
           \/ call.fills = <<>>

\* the book of a symbol; one that was never created holds nothing
BookOrNew(books, s) == IF s \in DOMAIN books THEN books[s] ELSE NewBook

\* C20: add_order of an order with an invalid quantity, or of a Limit order
\* with an invalid price, marks it Rejected, returns no trade and leaves
\* price levels, id index, trade history and counters of the book, and the
\* id-to-symbol map, trade history and counters of the engine as they were
C20_RejectHasNoEffect ==
    [][ \A h \in 1..Len(orders') :
          (call'.op = "add_order" /\ h = call'.id /\ ~ValidOrder(orders'[h]))
              => /\ orders'[h].status = "REJECTED"
                 /\ call'.trades = <<>>
                 /\ \A s \in Symbols : BookOrNew(order_books', s) = BookOrNew(order_books, s)
                 /\ order_id_to_symbol' = order_id_to_symbol
                 /\ stats' = stats
                 /\ trade_history' = trade_history ]_vars
\* C21: a Stop or StopLimit order submitted while its reference side is
\* empty (no asks for a buy, no bids for a sell) is marked Rejected, and the
\* book (id index, counters, levels) and the engine's counters are as they
\* were before the call
C21_StopRejectHasNoEffect ==
    [][ \A h \in 1..Len(orders') :
          (/\ call'.op = "add_order" /\ h = call'.id
           /\ orders'[h].type \in {"STOP", "STOP_LIMIT"}
           /\ BestOwnBefore(IF orders'[h].side = "BUY" THEN "SELL" ELSE "BUY",
                            orders'[h].symbol) = 0)
              => /\ orders'[h].status = "REJECTED"
                 /\ \A s \in Symbols :
                        /\ orders'[h].id \notin DOMAIN BookOrNew(order_books', s).orders_by_id
                        /\ BookOrNew(order_books', s) = BookOrNew(order_books, s)
                 /\ stats' = stats ]_vars
\* C22: after cancel_expired_orders returns, every order that was open and
\* has expired (expiry > 0 and expiry <= now) is resting in no price level
\* and get_order returns null for its id
C22_ExpiredAreCancelled ==
    [][ \A h \in Handles :
          (/\ call'.op = "cancel_expired_orders"
           /\ Found(orders[h].id) = h
           /\ orders[h].status \in {"NEW", "PARTIAL"}
           /\ orders[h].expiry > 0 /\ orders[h].expiry <= call'.args[1])
              => /\ ~Resting(h)'
                 /\ Found(orders[h].id)' = 0 ]_vars
\* the number of times a trade occurs in a list of trades
RECURSIVE Count(_, _)
Count(ts, t) ==
    IF ts = <<>> THEN 0 ELSE (IF Head(ts) = t THEN 1 ELSE 0) + Count(Tail(ts), t)

\* the user who submitted the order of that id (ids are the handles of the
\* submitted objects; modify_order keeps id and user)
OwnerOf(order_id) == orders[order_id].user_id

\* C23: get_user_trades(u) returns every trade ever produced whose buy or
\* sell order belongs to u, as often as it was produced, and no trade in
\* which neither order belongs to u
C23_UserTrades ==
    \A u \in TwoUsers :
        /\ \A i \in 1..Len(trade_history) :
              (u \in {OwnerOf(trade_history[i].buy_order_id),
                      OwnerOf(trade_history[i].sell_order_id)})
                 => Count(engine_get_user_trades(World, u, 1), trade_history[i])
                        = Count(trade_history, trade_history[i])
        /\ \A j \in 1..Len(engine_get_user_trades(World, u, 1)) :
              u \in {OwnerOf(engine_get_user_trades(World, u, 1)[j].buy_order_id),
                     OwnerOf(engine_get_user_trades(World, u, 1)[j].sell_order_id)}
\* the sum of a counter over the books, in map order from position i
RECURSIVE SumOverBooks(_, _)
SumOverBooks(counter, i) ==
    IF i > Len(SymbolOrder) THEN 0
    ELSE (IF SymbolOrder[i] \in DOMAIN order_books
          THEN order_books[SymbolOrder[i]][counter] ELSE 0)
            + SumOverBooks(counter, i + 1)

\* C24: between operations each engine counter (total_orders, total_trades,
\* total_volume) equals the sum of that counter over the books
C24_CountersAgree ==
    /\ stats.total_orders = SumOverBooks("total_orders", 1)
    /\ stats.total_trades = SumOverBooks("total_trades", 1)
    /\ stats.total_volume = SumOverBooks("total_volume", 1) % Modulus
\* the order objects whose status is New or Partial
ActiveOrders == {h \in Handles : orders[h].status \in {"NEW", "PARTIAL"}}

\* C25: in every reachable state get_order_count() is the number of active
\* orders (status New or Partial) across all symbols
C25_OrderCountIsActive ==
    ~hung => engine_get_order_count(World) = Cardinality(ActiveOrders)
\* C26: after clear() get_all_orders() is empty, get_order returns null for
\* every id, no book has a level, the counters total_orders, total_trades
\* and total_volume are zero and the trade histories are empty
C26_ClearResetsAll ==
    [][ call'.op = "clear"
          => /\ engine_get_all_orders(World, 1)' = <<>>
             /\ \A id \in OrderIds : Found(id)' = 0
             /\ \A s \in DOMAIN order_books' :
                    /\ DOMAIN order_books'[s].buy_orders = {}
                    /\ DOMAIN order_books'[s].sell_orders = {}
                    /\ order_books'[s].trade_history = <<>>
                    /\ order_books'[s].total_orders = 0
                    /\ order_books'[s].total_trades = 0
                    /\ order_books'[s].total_volume = 0
             /\ stats' = [total_orders |-> 0, total_trades |-> 0, total_volume |-> 0]
             /\ trade_history' = <<>> ]_vars
\* the first n events of the call
FirstEvents(events, n) == SubSeq(events, 1, n)

\* the total quantity of a list of trades
RECURSIVE SumQuantity(_)
SumQuantity(ts) ==
    IF ts = <<>> THEN 0 ELSE Head(ts).quantity + SumQuantity(Tail(ts))

\* C29: whenever the on_trade subscriber is invoked for a trade t, the
\* engine's total_trades and total_volume already include t (and the trades
\* delivered before it) and the engine's trade history already ends with t
C29_StatsBeforeOnTrade ==
    [][ \A i \in 1..Len(call'.events) :
          call'.events[i].kind = "trade"
            => /\ call'.events[i].stats.total_trades =
                     stats.total_trades + Len(TradesOf(FirstEvents(call'.events, i)))
               /\ call'.events[i].stats.total_volume =
                     Add(stats.total_volume,
                         SumQuantity(TradesOf(FirstEvents(call'.events, i))) % Modulus)
               /\ call'.events[i].trade_history =
                     trade_history \o TradesOf(FirstEvents(call'.events, i)) ]_vars

\* on_trade was invoked for the second trade of a call
C29_Witness ==
    \E i \in 1..Len(call.events) :
        /\ call.events[i].kind = "trade"
        /\ Len(TradesOf(FirstEvents(call.events, i))) >= 2
        /\ call.events[i].stats.total_trades >= 2
\* the elements of a list of order handles
Elements(hs) == {hs[i] : i \in 1..Len(hs)}

\* C30: get_user_orders(u) returns exactly the active orders of user u:
\* every order of u whose status is not terminal, resting or not, once, and
\* no order of another user
C30_UserOrders ==
    ~hung =>
        \A u \in TwoUsers :
            /\ Elements(engine_get_user_orders(World, u, 1)) =
                   {h \in Handles : orders[h].user_id = u /\ orders[h].status \notin Terminal}
            /\ Cardinality(Elements(engine_get_user_orders(World, u, 1))) =
                   Len(engine_get_user_orders(World, u, 1))
\* the positions of a thread inside a modify_order that cancels and re-adds
Replacing ==
    {"cancel_lookup", "cancel_mark", "cancel_level", "cancel_erase", "readd",
     "switch", "rest", "finish"}

\* C27: modify_order is atomic for other threads: while a thread is inside
\* a modify_order(id, ...) that replaces the order, a get_order(id) made by
\* another thread finds an order of that id (never the state in which the
\* order is cancelled and not yet re-added), and the re-added order has the
\* id of the one it replaces
C27_ModifyIsAtomic ==
    \A t \in Threads :
        threads[t].pc \in Replacing
            => /\ Found(threads[t].order_id) # 0
               /\ orders[Found(threads[t].order_id)].id = threads[t].order_id
               /\ threads[t].new_order # 0
                      => orders[threads[t].new_order].id = threads[t].order_id

\* the orders held in price levels, as get_all_orders lists them
RestingOrders == engine_get_all_orders(World, 1)

\* C28: in every state reached by engine operations running in several
\* threads, no book is crossed (best bid >= best ask) and no order id rests
\* twice
C28_ThreadSafeBook ==
    /\ \A book \in Books :
          (DOMAIN book.buy_orders # {} /\ DOMAIN book.sell_orders # {})
              => get_best_bid(book) < get_best_ask(book)
    /\ \A i \in 1..Len(RestingOrders) : \A j \in 1..Len(RestingOrders) :
          i # j => orders[RestingOrders[i]].id # orders[RestingOrders[j]].id
\* C31: every add_order call completes: the matching loop of no add_order
\* spins for ever on a best opposing level whose orders have no remaining
\* quantity
C31_AddOrderTerminates == ~(hung /\ call.op = "add_order")

\* C32: deadlock freedom: no interleaving of operations of the engine and of
\* the book, the metrics average_spread and cancellation_rate among them,
\* reaches a state where the threads wait on the engine, level and id-map
\* locks for ever: whenever a thread waits for a mutex it cannot get, some
\* thread inside an operation can go on
Blocked(t) == InOperation(t) /\ threads[t].waiting /\ ~Grantable(t)
C32_DeadlockFree ==
    \A t \in Threads :
        Blocked(t) => \E u \in Threads : InOperation(u) /\ ~Blocked(u)

\* C33: every write to an order's filled_quantity, status or quantity by
\* add_order, cancel_order, modify_order or the matching is made by a thread
\* that holds order_book_mutex_ exclusively: a step that changes one of these
\* fields of an order is a step inside a unique_lock of order_book_mutex_
Written(h) ==
    \/ orders'[h].filled_quantity # orders[h].filled_quantity
    \/ orders'[h].status # orders[h].status
    \/ orders'[h].quantity # orders[h].quantity
C33_WritesUnderLevelLock ==
    [][\A h \in 1..Len(orders) :
           Written(h) =>
               \E t \in Threads : threads'[t] # threads[t] /\ holds_order_book_mutex(t)]_vars

\* C34: an add_order call that rejects its order at validation emits exactly
\* one event: an order-update for that order with status REJECTED, and no
\* trade event
C34_RejectEmitsOneUpdate ==
    (call.op = "add_order" /\ ~ValidOrder(orders[call.id])) =>
        /\ Len(call.events) = 1
        /\ call.events[1].kind = "order_update"
        /\ call.events[1].order.id = orders[call.id].id
        /\ call.events[1].order.status = "REJECTED"

\* the order-update events among events that carry the order id
RECURSIVE UpdatesOf(_, _)
UpdatesOf(events, id) ==
    IF events = <<>> THEN <<>>
    ELSE (IF Head(events).kind = "order_update" /\ Head(events).order.id = id
          THEN <<Head(events)>> ELSE <<>>) \o UpdatesOf(Tail(events), id)

\* C35: within one add_order call every fill of a maker is followed by an
\* order-update of that maker, and the taker's order-update fires once after
\* the matching and a second time when its remainder is rested: an order
\* that ends the call resting in a level has two order-updates
C35_TakerUpdates ==
    (call.op = "add_order" /\ ~hung) =>
        /\ \A i \in 1..Len(call.fills) :
               /\ call.events[2 * i - 1].kind = "trade"
               /\ call.events[2 * i].kind = "order_update"
               /\ call.events[2 * i].order.id = orders[call.fills[i].maker].id
        /\ Len(UpdatesOf(call.events, orders[call.id].id)) =
               IF Resting(call.id) THEN 2 ELSE 1

\* the places of the levels: book, side, price, position in the FIFO
LevelPlaces ==
    {<<s, f, p, i>> \in (DOMAIN order_books) \X {"buy_orders", "sell_orders"}
                        \X Prices \X (1..MaxOrders) :
         /\ p \in DOMAIN order_books[s][f]
         /\ i \in 1..Len(order_books[s][f][p].orders)}
OrderAt(place) == order_books[place[1]][place[2]][place[3]].orders[place[4]]

\* C36: between operations every order held in a price level is held in one
\* level only and once, on the side that is its side, under the key that is
\* its price, is in the id index of the book under its id, and has status
\* NEW or PARTIAL
C36_LevelOrdersConsistent ==
    ~hung =>
        \A place \in LevelPlaces :
            /\ \A other \in LevelPlaces :
                   orders[OrderAt(other)].id = orders[OrderAt(place)].id => other = place
            /\ place[2] = SideField(orders[OrderAt(place)].side)
            /\ place[3] = orders[OrderAt(place)].price
            /\ orders[OrderAt(place)].id \in DOMAIN order_books[place[1]].orders_by_id
            /\ order_books[place[1]].orders_by_id[orders[OrderAt(place)].id] = OrderAt(place)
            /\ orders[OrderAt(place)].status \in {"NEW", "PARTIAL"}
C36_Witness ==
    /\ ~hung
    /\ \E place \in LevelPlaces : orders[OrderAt(place)].status = "PARTIAL"
    /\ call.op = "modify_order" /\ call.ret = TRUE

\* a stop or stop-limit order that was accepted and not triggered: a
\* triggered one has become a market or limit order
Untriggered(o) == o.type \in {"STOP", "STOP_LIMIT"} /\ o.status = "NEW"

\* C37: a stop or stop-limit order whose trigger is false when it is
\* submitted stays in the id index with status NEW and in no level, and no
\* later change triggers it: unless it is modified or cancelled, every later
\* call leaves it as it is and makes no trade with it
C37_UntriggeredStopSleeps ==
    [][ /\ \A h \in 1..Len(orders'), id \in OrderIds :
               (Untriggered(orders'[h]) /\ id = orders'[h].id) =>
                   Found(id)' = h /\ ~Resting(h)'
        /\ \A h \in Handles :
               (/\ Untriggered(orders[h])
                /\ ~(call'.op \in {"modify_order", "cancel_order"}
                     /\ call'.id = orders[h].id))
                 => /\ orders'[h] = orders[h]
                    /\ \A i \in 1..Len(call'.fills) :
                           call'.fills[i].taker # h /\ call'.fills[i].maker # h
                    /\ \A i \in 1..Len(call'.events) :
                           call'.events[i].kind = "trade" =>
                               /\ call'.events[i].trade.buy_order_id # orders[h].id
                               /\ call'.events[i].trade.sell_order_id # orders[h].id ]_vars
C37_Witness ==
    \E h \in Handles :
        /\ Untriggered(orders[h])
        /\ call.op = "add_order"
        /\ call.id # h
        /\ Len(call.fills) > 0

\* the symbol whose book the call about to end works on: the order's own for
\* add_order, the one the engine keeps for the id for cancel and modify
CallSymbol ==
    IF call'.op = "add_order" THEN orders'[call'.id].symbol
    ELSE IF call'.id \in DOMAIN order_id_to_symbol THEN order_id_to_symbol[call'.id]
    ELSE ""

\* C38: symbol isolation: an add, cancel or modify for one symbol leaves the
\* levels, the id index, the trade history and the counters of the book of
\* every other symbol, and the orders of other symbols, as they were; and
\* every trade pairs two orders of one symbol, which is the trade's symbol
C38_SymbolIsolation ==
    [][ call'.op \in {"add_order", "cancel_order", "modify_order"} =>
          /\ \A s \in DOMAIN order_books :
                 s # CallSymbol => s \in DOMAIN order_books' /\ order_books'[s] = order_books[s]
          /\ \A h \in Handles :
                 orders[h].symbol # CallSymbol => orders'[h] = orders[h]
          /\ \A i \in 1..Len(call'.fills) :
                 /\ orders'[call'.fills[i].taker].symbol = call'.fills[i].trade.symbol
                 /\ orders'[call'.fills[i].maker].symbol = call'.fills[i].trade.symbol ]_vars
C38_Witness ==
    /\ call.op = "add_order"
    /\ Len(call.fills) > 0
    /\ \E s \in DOMAIN order_books :
           /\ s # orders[call.id].symbol
           /\ order_books[s].buy_orders # <<>> \/ order_books[s].sell_orders # <<>>

\* what rests in the books of w: for each symbol, side and price the FIFO of
\* order ids with their remaining quantities
LevelImage(w, level) ==
    [i \in 1..Len(level.orders) |->
        [id |-> w.orders[level.orders[i]].id,
         remaining |-> Remaining(w.orders[level.orders[i]])]]
SideImage(w, s, f) ==
    [p \in (IF s \in DOMAIN w.order_books THEN DOMAIN w.order_books[s][f] ELSE {}) |->
        LevelImage(w, w.order_books[s][f][p])]
RestingBook(w) ==
    [s \in Symbols |-> [f \in {"buy_orders", "sell_orders"} |-> SideImage(w, s, f)]]

\* C39: the replay at startup brings the engine back to the resting book it
\* had before the shutdown; in particular an order that was cancelled with
\* success does not rest after the replay
C39_ReplayRestoresBook ==
    [][ call'.op = "replay" => RestingBook(World)' = RestingBook(World) ]_vars

\* thread t is between engine->add_order and the cancel of its IOC or FOK
\* order
Placing(t) == threads[t].pc = "added" /\ threads[t].tif \in {"IOC", "FOK"}

\* C40: while an IOC or FOK order is being submitted no order of another
\* thread trades against its unfilled remainder: the order is in no level
\* between add_order and the follow-up cancel_order, and no step of another
\* thread fills it
C40_RemainderInvisible ==
    [][ /\ \A t \in Threads, h \in 1..Len(orders') :
               (Placing(t)' /\ h = threads'[t].order) => ~Resting(h)'
        /\ \A t \in Threads :
               Placing(t) =>
                   \A i \in 1..Len(call'.fills) : call'.fills[i].maker # threads[t].order ]_vars
====
